---- MODULE Spec2Model ----
(***************************************************************************)
(* good_pics_export.py: export of the five-star photos of a Shotwell       *)
(* catalog into DEST_DIR/subdirNN/<slug>, with an in-place downsize of the *)
(* exported images that exceed a pixel budget.                             *)
(*                                                                         *)
(* Text is modelled as a sequence of one-character strings, a path as a    *)
(* record (a source) or a sequence of components (a destination), an image *)
(* file as the dimensions of the image.      The two numeric defaults of  *)
(* parse_args and the cap of get_pic_filenames are scaled down.            *)
(***************************************************************************)
EXTENDS Integers, Sequences, FiniteSets, TLC

\* ------------------------------------------------------------------ bounds
\* Photos (rows) the catalog may hold.
MaxPics == 3
\* Times main() is run on the same catalog and destination tree.
MaxRuns == 2
\* Longest source list of the destination-namer specification.
MaxPlanLen == 101
\* Largest bucket capacity of the destination-namer specification.
MaxCapacity == 3
\* Largest image side, largest pixel budget of the resize specification.
\* (For sides below 47 the IEEE-double product int(ratio * side) of the code
\* equals the exact floor computed here; from 47 on the double can fall one
\* short of it, never above it.)
MaxDim == 4
MaxPixLimit == 9

\* ------------------------------------------------------- program constants
\* get_pic_filenames(num_limit=40000), scaled down.
NumLimit == 2
\* --max-pix-count default=1900000, scaled down.
PixLimitDefault == 8
\* --pics-per-subdir default=1024, scaled down.
PicsPerSubdirDefault == 2

DEST_DIR == "/home/USER/Dropbox/five-star-pics"

\* ------------------------------------------------------------------- text
Str_subdir == <<"s", "u", "b", "d", "i", "r">>

LowerCase == {"a", "b", "c", "d", "e", "j"}
DigitChars == <<"0", "1", "2", "3", "4", "5", "6", "7", "8", "9">>
DigitSet == {DigitChars[k] : k \in 1..10}

\* str.lower() on one character.
Lower(c) ==
    CASE c = "A" -> "a"
      [] c = "B" -> "b"
      [] c = "J" -> "j"
      [] OTHER -> c

LowerStr(s) == [k \in 1..Len(s) |-> Lower(s[k])]

RECURSIVE JoinWith(_, _)
\* sep.join(parts)
JoinWith(parts, sep) ==
    IF Len(parts) = 0 THEN <<>>
    ELSE IF Len(parts) = 1 THEN parts[1]
    ELSE parts[1] \o <<sep>> \o JoinWith(Tail(parts), sep)

RECURSIVE SquashDashes(_)
\* Runs of "-" become one "-".
SquashDashes(s) ==
    IF Len(s) < 2 THEN s
    ELSE IF s[1] = "-" /\ s[2] = "-" THEN SquashDashes(Tail(s))
    ELSE <<s[1]>> \o SquashDashes(Tail(s))

StripDashes(s) ==
    LET lead == IF Len(s) > 0 /\ s[1] = "-" THEN Tail(s) ELSE s
    IN IF Len(lead) > 0 /\ lead[Len(lead)] = "-"
       THEN SubSeq(lead, 1, Len(lead) - 1)
       ELSE lead

\* slugify.slugify(text): lower-case, every character that is not a letter
\* or a digit becomes "-", runs of "-" collapse, "-" is stripped at the ends.
Slugify(text) ==
    LET low == LowerStr(text)
        safe == [k \in 1..Len(low) |->
                    IF low[k] \in LowerCase \cup DigitSet THEN low[k] ELSE "-"]
    IN StripDashes(SquashDashes(safe))

RECURSIVE Decimal(_)
\* The decimal digits of a natural number, most significant first.
Decimal(n) ==
    IF n < 10 THEN <<DigitChars[n + 1]>>
    ELSE Decimal(n \div 10) \o <<DigitChars[(n % 10) + 1]>>

\* f"{n:02}": decimal, zero-padded on the left to a width of two.
Format02(n) ==
    LET d == Decimal(n) IN IF Len(d) < 2 THEN <<"0">> \o d ELSE d

\* ------------------------------------------------------------ source files
\* Path: the three directories before the filename, the stem, the suffix.
MkOrig(day, stem, suffix) ==
    [parts |-> << <<"2", "2">>, <<"0", "6">>, day >>, stem |-> stem, suffix |-> suffix]

\* The photos of the library, in the order of their catalog ids.  The first
\* two differ only in case, so their slugs coincide.
Master ==
    << MkOrig(<<"0", "1">>, <<"A">>, <<".", "J">>),
       MkOrig(<<"0", "1">>, <<"a">>, <<".", "j">>),
       MkOrig(<<"0", "1">>, <<"b", " ", "c">>, <<".", "j">>),
       MkOrig(<<"0", "2">>, <<"d">>, <<".", "j">>),
       MkOrig(<<"0", "2">>, <<"e">>, <<".", "J">>) >>

\* What an image file holds: its dimensions.
Image(w, h) == [kind |-> "image", width |-> w, height |-> h]

\* The image each photo holds: one pixel over the
\* default budget, exactly at it, twice over it, and so on round.
MasterImage ==
    << Image(3, 3), Image(4, 2), Image(4, 4), Image(2, 2), Image(1, 9) >>

Library == 1..(IF MaxPics < Len(Master) THEN MaxPics ELSE Len(Master))
Origs == {Master[k] : k \in 1..Len(Master)}
ImageOf(orig) == MasterImage[CHOOSE k \in 1..Len(Master) : Master[k] = orig]

Missing == [kind |-> "missing"]
\* A file whose bytes no longer decode (a save that failed half way).
Damaged == [kind |-> "damaged"]

\* ------------------------------------------------------- Destination Namer
\* _get_date_from_shotwell_directories: "-".join(filename.parts[-4:-1])
DateLabel(orig) == JoinWith(orig.parts, "-")

SubdirNumOffByOne(i, pics_per_subdir) == (i + 1) \div pics_per_subdir
\* subdir_num = i // args.pics_per_subdir
SubdirNum(i, pics_per_subdir) == i \div pics_per_subdir

\* Path(DEST_DIR, f"subdir{subdir_num:02}")
PicDir(i, pics_per_subdir) ==
    <<DEST_DIR, Str_subdir \o Format02(SubdirNum(i, pics_per_subdir))>>

\* slugify(Path(date, orig.stem).as_posix()) + orig.suffix.lower()
SlugOf(orig) ==
    Slugify(DateLabel(orig) \o <<"/">> \o orig.stem) \o LowerStr(orig.suffix)

\* _make_dest_name: Path(_make_new_dir_if_needed(i), slug)
MakeDestName(orig, i, pics_per_subdir) ==
    PicDir(i, pics_per_subdir) \o <<SlugOf(orig)>>

\* [(o, _make_dest_name(o, i)) for i, o in enumerate(orig_files)]
GetDestFilenames(orig_files, pics_per_subdir) ==
    [k \in 1..Len(orig_files) |->
        <<orig_files[k], MakeDestName(orig_files[k], k - 1, pics_per_subdir)>>]

\* The directories _make_new_dir_if_needed has made sure of after the plan.
DirsOfPlan(orig_files, pics_per_subdir) ==
    {PicDir(k - 1, pics_per_subdir) : k \in 1..Len(orig_files)}

\* ---------------------------------------------------------------- resizing
\* num_pixels = img.height * img.width
NumPixels(img) == img.height * img.width

IsTooBigInclusive(num_pixels, pix_limit) == num_pixels >= pix_limit
\* is_too_big = num_pixels > pix_limit
IsTooBig(num_pixels, pix_limit) == num_pixels > pix_limit

\* ratio = pix_limit / num_pixels
\* new_size = (int(ratio * img.width), int(ratio * img.height))
NewSize(img, pix_limit) ==
    Image((pix_limit * img.width) \div NumPixels(img),
          (pix_limit * img.height) \div NumPixels(img))

\* ------------------------------------------------------------- the options
\* argparse stores a default as given (an int) and a value of the command
\* line as the text typed: neither numeric option declares type=int.
IntArg(n) == [type |-> "int", val |-> n]
StrArg(n) == [type |-> "str", val |-> n]

\* parse_args(): every Namespace main() can get.
ArgSpace ==
    [CLEAR_ALL_PHOTOS : BOOLEAN,
     RESIZE_SKIP : BOOLEAN,
     PIX_LIMIT : {IntArg(PixLimitDefault), StrArg(PixLimitDefault)},
     pics_per_subdir : {IntArg(PicsPerSubdirDefault), StrArg(PicsPerSubdirDefault)}]

NoArgs ==
    [CLEAR_ALL_PHOTOS |-> FALSE, RESIZE_SKIP |-> FALSE,
     PIX_LIMIT |-> IntArg(PixLimitDefault),
     pics_per_subdir |-> IntArg(PicsPerSubdirDefault)]

\* ------------------------------------------------------------------- state
VARIABLES
    catalog,              \* PhotoTable rows with rating = 5, in the query's order
    srcFiles,             \* source path -> image, or Missing
    rootExists,           \* DEST_DIR is a directory
    destDirs,             \* the subdirectories of DEST_DIR
    destFiles,            \* destination path -> image, or Damaged
    pc,                   \* where main() is
    args,                 \* the Namespace of parse_args
    pic_filenames,        \* result of get_pic_filenames
    orig_dest_filenames,  \* result of get_dest_filenames
    i,                    \* index of the loop of copy_and_resize (0-based)
    counts,               \* dict(already_there, copied, error, resized)
    per_left_old,         \* last percentage printed
    stdout,               \* the lines printed by this run
    abort,                \* the exception that ended the run, if one did
    phase,                \* per item: how its copy and its resize ended
    runs,                 \* runs of main() started
    prev                  \* how the previous run ended

vars ==
    <<catalog, srcFiles, rootExists, destDirs, destFiles, pc, args, pic_filenames,
      orig_dest_filenames, i, counts, per_left_old, stdout, abort, phase, runs, prev>>

\* counts = dict(already_there=0, copied=0, error=0, resized=[])
NewCounts == [already_there |-> 0, copied |-> 0, error |-> 0, resized |-> <<>>]

NoAbort == [phase |-> "none", error |-> "none"]
Pending == [copy |-> "PENDING", resize |-> "NONE"]

EmptyFiles == [p \in {} |-> Missing]

\* A file written (or overwritten) at path p.
WriteFile(files, p, content) ==
    [q \in (DOMAIN files) \cup {p} |-> IF q = p THEN content ELSE files[q]]

\* Subsequences of the library: which photos carry five stars.
RECURSIVE Pick(_, _)
Pick(chosen, k) ==
    IF k > Len(Master) THEN <<>>
    ELSE (IF k \in chosen THEN <<Master[k]>> ELSE <<>>) \o Pick(chosen, k + 1)

Catalogs == {Pick(chosen, 1) : chosen \in SUBSET Library}

\* random.sample(pic_filenames, num_limit): num_limit distinct rows, any order.
Samples(rows, num_limit) ==
    {[k \in 1..num_limit |-> rows[f[k]]] :
        f \in {g \in [1..num_limit -> 1..Len(rows)] :
                 \A a, b \in 1..num_limit : a # b => g[a] # g[b]}}

\* ---------------------------------------------------- copy_and_resize steps
DestNeverExists(dest, files) == FALSE
DestParentExists(dest, files) == <<dest[1], dest[2]>> \in destDirs
\* dest.exists()
DestExists(dest, files) == dest \in DOMAIN files

CountAlreadyThereAsCopied(c) == [c EXCEPT !.copied = @ + 1]
\* counts["already_there"] += 1
CountAlreadyThere(c) == [c EXCEPT !.already_there = @ + 1]

\* counts["copied"] += 1
CountCopied(c) == [c EXCEPT !.copied = @ + 1]

CountErrorAsCopied(c) == [c EXCEPT !.copied = @ + 1]
\* counts["error"] += 1
CountError(c) == [c EXCEPT !.error = @ + 1]

\* counts["resized"].append(orig)
CountResized(c, orig) == [c EXCEPT !.resized = Append(@, orig)]

OnResizeErrorCounted(c) == [c EXCEPT !.error = @ + 1]
\* except OSError: only a print, counts is not touched
OnResizeError(c) == c

\* The for loop: the next item, or the return of counts after the last one.
NextItem(k, n) ==
    IF k + 1 < n THEN [pc |-> "copy", i |-> k + 1] ELSE [pc |-> "report", i |-> k + 1]

AfterCopyErrorFallThrough(k, n) == [pc |-> "resize", i |-> k]
\* except FileNotFoundError: ... continue
AfterCopyError(k, n) == NextItem(k, n)

\* per_left = 100 - (100 * i // len(pic_filenames))
PerLeft(k, n) == 100 - ((100 * k) \div n)

\* What the image library can do on one call of shrink_large: nothing wrong,
\* an OSError or another exception while opening, the same while resizing and
\* saving.
CodecOutcomes == {"ok", "open_OSError", "open_other", "save_OSError", "save_other"}

\* What orig.copy(dest) can do when the source file is there.
CopyOutcomes == {"ok", "PermissionError"}

Raise(where, what) ==
    /\ pc' = "aborted"
    /\ abort' = [phase |-> where, error |-> what]

\* --------------------------------------------------------------- the state
Init ==
    /\ catalog \in Catalogs
    \* A file the catalog does not name is never looked at: call it missing.
    /\ \E present \in SUBSET {catalog[k] : k \in 1..Len(catalog)} :
          srcFiles = [o \in Origs |-> IF o \in present THEN ImageOf(o) ELSE Missing]
    /\ rootExists \in BOOLEAN
    /\ destDirs = {}
    /\ destFiles = EmptyFiles
    /\ pc = "start"
    /\ args = NoArgs
    /\ pic_filenames = <<>>
    /\ orig_dest_filenames = <<>>
    /\ i = 0
    /\ counts = NewCounts
    /\ per_left_old = -1
    /\ stdout = <<>>
    /\ abort = NoAbort
    /\ phase = <<>>
    /\ runs = 1
    /\ prev = "none"

\* main(), lines 167-175: parse_args and the optional clearing of DEST_DIR.
ParseArgs ==
    /\ pc = "start"
    /\ \E a \in ArgSpace :
          /\ args' = a
          /\ IF a.CLEAR_ALL_PHOTOS
             THEN /\ stdout' = Append(stdout, [kind |-> "clearing"])
                  /\ IF rootExists
                     THEN \* dest_dir.rmtree(); dest_dir.mkdir()
                          /\ destDirs' = {}
                          /\ destFiles' = EmptyFiles
                          /\ pc' = "get_pic_filenames"
                          /\ UNCHANGED abort
                     ELSE \* rmtree of a directory that is not there
                          /\ Raise("setup", "clear_all")
                          /\ UNCHANGED <<destDirs, destFiles>>
             ELSE /\ pc' = "get_pic_filenames"
                  /\ UNCHANGED <<stdout, destDirs, destFiles, abort>>
    /\ UNCHANGED <<catalog, srcFiles, rootExists, pic_filenames, orig_dest_filenames,
                   i, counts, per_left_old, phase, runs, prev>>

\* get_pic_filenames(): the query, and the sample when there are too many.
GetPicFilenames ==
    /\ pc = "get_pic_filenames"
    /\ \E db_ok \in BOOLEAN :
          IF ~db_ok
          THEN \* check_output raises CalledProcessError
               /\ Raise("setup", "catalog_query")
               /\ UNCHANGED pic_filenames
          ELSE /\ IF Len(catalog) > NumLimit
                  THEN pic_filenames' \in Samples(catalog, NumLimit)
                  ELSE pic_filenames' = catalog
               /\ pc' = "copy_and_resize"
               /\ UNCHANGED abort
    /\ UNCHANGED <<catalog, srcFiles, rootExists, destDirs, destFiles, args,
                   orig_dest_filenames, i, counts, per_left_old, stdout, phase,
                   runs, prev>>

\* copy_and_resize(), lines 85-90: the first print, counts, and the plan of
\* get_dest_filenames with the directories it makes.
CopyAndResizeBegin ==
    /\ pc = "copy_and_resize"
    /\ stdout' = Append(stdout, [kind |-> "processing", n |-> Len(pic_filenames)])
    /\ counts' = NewCounts
    /\ per_left_old' = -1
    /\ i' = 0
    /\ IF Len(pic_filenames) = 0
       THEN /\ orig_dest_filenames' = <<>>
            /\ phase' = <<>>
            /\ pc' = "report"
            /\ UNCHANGED <<destDirs, abort>>
       ELSE IF args.pics_per_subdir.type # "int"
       THEN \* i // "1024": TypeError, before any directory is made
            /\ Raise("setup", "pics_per_subdir_TypeError")
            /\ UNCHANGED <<orig_dest_filenames, phase, destDirs>>
       ELSE IF ~rootExists
       THEN \* pic_dir.mkdir() under a DEST_DIR that is not there
            /\ Raise("setup", "dest_root_missing")
            /\ UNCHANGED <<orig_dest_filenames, phase, destDirs>>
       ELSE /\ orig_dest_filenames' =
                   GetDestFilenames(pic_filenames, args.pics_per_subdir.val)
            /\ destDirs' =
                   destDirs \cup DirsOfPlan(pic_filenames, args.pics_per_subdir.val)
            /\ phase' = [k \in 1..Len(pic_filenames) |-> Pending]
            /\ pc' = "copy"
            /\ UNCHANGED abort
    /\ UNCHANGED <<catalog, srcFiles, rootExists, destFiles, args, pic_filenames,
                   runs, prev>>

\* The loop body, lines 93-102: the copy of item i.
CopyAttempt ==
    /\ pc = "copy"
    /\ LET orig == orig_dest_filenames[i + 1][1]
           dest == orig_dest_filenames[i + 1][2]
           n == Len(orig_dest_filenames)
       IN IF DestExists(dest, destFiles)
          THEN /\ counts' = CountAlreadyThere(counts)
               /\ phase' = [phase EXCEPT ![i + 1].copy = "ALREADY_PRESENT"]
               /\ pc' = "resize"
               /\ UNCHANGED <<destFiles, stdout, abort, i>>
          ELSE IF srcFiles[orig] = Missing
          THEN \* orig.copy(dest) raises FileNotFoundError
               /\ stdout' = Append(stdout, [kind |-> "couldnt_copy", orig |-> orig])
               /\ counts' = CountError(counts)
               /\ phase' = [phase EXCEPT ![i + 1].copy = "COPY_ERROR"]
               /\ pc' = AfterCopyError(i, n).pc
               /\ i' = AfterCopyError(i, n).i
               /\ UNCHANGED <<destFiles, abort>>
          ELSE \E io \in CopyOutcomes :
                  IF io = "ok"
                  THEN /\ destFiles' = WriteFile(destFiles, dest, srcFiles[orig])
                       /\ counts' = CountCopied(counts)
                       /\ phase' = [phase EXCEPT ![i + 1].copy = "COPIED"]
                       /\ pc' = "resize"
                       /\ UNCHANGED <<stdout, abort, i>>
                  ELSE \* not a FileNotFoundError: no handler
                       /\ Raise("copy", io)
                       /\ UNCHANGED <<destFiles, counts, phase, stdout, i>>
    /\ UNCHANGED <<catalog, srcFiles, rootExists, destDirs, args, pic_filenames,
                   orig_dest_filenames, per_left_old, runs, prev>>

\* The loop body, lines 104-127, with shrink_large (lines 37-49) inlined:
\* the resize of item i's destination and the status line.
ResizeAttempt ==
    /\ pc = "resize"
    /\ LET orig == orig_dest_filenames[i + 1][1]
           dest == orig_dest_filenames[i + 1][2]
           n == Len(pic_filenames)
           content == IF dest \in DOMAIN destFiles THEN destFiles[dest] ELSE Missing
           per_left == PerLeft(i, n)
           \* shrink_large returned was_resized
           Returned(was_resized, how) ==
               /\ counts' = IF was_resized THEN CountResized(counts, orig) ELSE counts
               /\ phase' = [phase EXCEPT ![i + 1].resize = how]
               /\ IF was_resized \/ per_left # per_left_old
                  THEN /\ stdout' = Append(stdout,
                              [kind |-> "status", per_left |-> per_left, i |-> i,
                               orig |-> orig, resizing |-> was_resized])
                       /\ per_left_old' = per_left
                  ELSE UNCHANGED <<stdout, per_left_old>>
               /\ pc' = NextItem(i, n).pc
               /\ i' = NextItem(i, n).i
               /\ UNCHANGED abort
           \* except OSError as err: print(...)
           Caught ==
               /\ stdout' = Append(stdout,
                      [kind |-> "couldnt_resize", i |-> i, orig |-> orig])
               /\ counts' = OnResizeError(counts)
               /\ phase' = [phase EXCEPT ![i + 1].resize = "RESIZE_ERROR"]
               /\ pc' = NextItem(i, n).pc
               /\ i' = NextItem(i, n).i
               /\ UNCHANGED <<per_left_old, abort>>
           Uncaught(what) ==
               /\ Raise("resize", what)
               /\ UNCHANGED <<counts, phase, stdout, per_left_old, i>>
       IN IF args.RESIZE_SKIP
          THEN \* if skip_resize: return False
               /\ Returned(FALSE, "SKIPPED")
               /\ UNCHANGED destFiles
          ELSE \E codec \in CodecOutcomes :
                  IF content \in {Missing, Damaged} \/ codec = "open_OSError"
                  THEN \* Image.open: FileNotFoundError, UnidentifiedImageError
                       Caught /\ UNCHANGED destFiles
                  ELSE IF codec = "open_other"
                  THEN Uncaught(codec) /\ UNCHANGED destFiles
                  ELSE IF args.PIX_LIMIT.type # "int"
                  THEN \* num_pixels > "1900000": TypeError
                       Uncaught("PIX_LIMIT_TypeError") /\ UNCHANGED destFiles
                  ELSE IF ~IsTooBig(NumPixels(content), args.PIX_LIMIT.val)
                  THEN Returned(FALSE, "NOT_RESIZED") /\ UNCHANGED destFiles
                  ELSE IF codec = "save_OSError"
                  THEN \* out.save fails on the file it has truncated
                       Caught /\ destFiles' = WriteFile(destFiles, dest, Damaged)
                  ELSE IF codec = "save_other"
                  THEN Uncaught(codec) /\ UNCHANGED destFiles
                  ELSE /\ destFiles' = WriteFile(destFiles, dest,
                                           NewSize(content, args.PIX_LIMIT.val))
                       /\ Returned(TRUE, "RESIZED")
    /\ UNCHANGED <<catalog, srcFiles, rootExists, destDirs, args, pic_filenames,
                   orig_dest_filenames, runs, prev>>

\* The fields of the line main() prints from counts.
ReportLine(c) ==
    [kind |-> "report", copied |-> c.copied, resized |-> Len(c.resized),
     already_there |-> c.already_there]

\* main(), lines 181-190: the report.
Report ==
    /\ pc = "report"
    /\ stdout' = Append(stdout, ReportLine(counts))
    /\ pc' = "done"
    /\ UNCHANGED <<catalog, srcFiles, rootExists, destDirs, destFiles, args,
                   pic_filenames, orig_dest_filenames, i, counts, per_left_old,
                   abort, phase, runs, prev>>

\* The operator starts the script again: same catalog, same files.
Rerun ==
    /\ pc \in {"done", "aborted"}
    /\ runs < MaxRuns
    /\ runs' = runs + 1
    /\ prev' = pc
    /\ pc' = "start"
    /\ args' = NoArgs
    /\ pic_filenames' = <<>>
    /\ orig_dest_filenames' = <<>>
    /\ i' = 0
    /\ counts' = NewCounts
    /\ per_left_old' = -1
    /\ stdout' = <<>>
    /\ abort' = NoAbort
    /\ phase' = <<>>
    /\ UNCHANGED <<catalog, srcFiles, rootExists, destDirs, destFiles>>

Next ==
    \/ ParseArgs
    \/ GetPicFilenames
    \/ CopyAndResizeBegin
    \/ CopyAttempt
    \/ ResizeAttempt
    \/ Report
    \/ Rerun

Spec == Init /\ [][Next]_vars

\* ------------------------------------------ get_dest_filenames on its own
\* A source list of the given length, over the photos of the library.
SourceList(len) == [k \in 1..len |-> Master[((k - 1) % Len(Master)) + 1]]

InitNamer ==
    /\ \E len \in 0..MaxPlanLen : pic_filenames = SourceList(len)
    /\ \E cap \in 1..MaxCapacity :
          args = [NoArgs EXCEPT !.pics_per_subdir = IntArg(cap)]
    /\ catalog = pic_filenames
    /\ srcFiles = [o \in Origs |-> ImageOf(o)]
    /\ rootExists = TRUE
    /\ destDirs = {}
    /\ destFiles = EmptyFiles
    /\ pc = "copy_and_resize"
    /\ orig_dest_filenames = <<>>
    /\ i = 0
    /\ counts = NewCounts
    /\ per_left_old = -1
    /\ stdout = <<>>
    /\ abort = NoAbort
    /\ phase = <<>>
    /\ runs = 1
    /\ prev = "none"

NextNamer == CopyAndResizeBegin

SpecNamer == InitNamer /\ [][NextNamer]_vars

\* ------------------------------------------------- shrink_large on its own
\* copy_and_resize over two photos whose destinations are already there,
\* holding any two small images, under any pixel budget.
ShrinkSources == <<Master[1], Master[3]>>

InitShrink ==
    /\ pic_filenames = ShrinkSources
    /\ catalog = pic_filenames
    /\ srcFiles = [o \in Origs |-> ImageOf(o)]
    /\ rootExists = TRUE
    /\ \E limit \in 0..MaxPixLimit, skip \in BOOLEAN :
          args = [NoArgs EXCEPT !.PIX_LIMIT = IntArg(limit), !.RESIZE_SKIP = skip]
    /\ orig_dest_filenames = GetDestFilenames(pic_filenames, PicsPerSubdirDefault)
    /\ destDirs = DirsOfPlan(pic_filenames, PicsPerSubdirDefault)
    /\ \E w1 \in 1..MaxDim, h1 \in 1..MaxDim, w2 \in 1..MaxDim, h2 \in 1..MaxDim :
          destFiles =
              WriteFile(WriteFile(EmptyFiles, orig_dest_filenames[1][2], Image(w1, h1)),
                        orig_dest_filenames[2][2], Image(w2, h2))
    /\ pc = "copy"
    /\ i = 0
    /\ counts = NewCounts
    /\ per_left_old = -1
    /\ stdout = <<[kind |-> "processing", n |-> Len(pic_filenames)]>>
    /\ abort = NoAbort
    /\ phase = [k \in 1..Len(pic_filenames) |-> Pending]
    /\ runs = 1
    /\ prev = "none"

NextShrink ==
    \/ CopyAttempt
    \/ ResizeAttempt

SpecShrink == InitShrink /\ [][NextShrink]_vars

\* ================================================================ properties
OrigOf(k) == orig_dest_filenames[k][1]
DestOf(k) == orig_dest_filenames[k][2]
Items == 1..Len(phase)
CopyDone == {"COPIED", "ALREADY_PRESENT"}
ResizeTried == {"RESIZED", "NOT_RESIZED", "RESIZE_ERROR"}
LastLine == stdout[Len(stdout)]
\* Where the run is, or was when an exception ended it.
Stage == IF pc = "aborted" THEN abort.phase ELSE pc
InLoop == Stage \in {"copy", "resize", "report", "done"}
CountOf(outcome) == Cardinality({k \in Items : phase[k].copy = outcome})

\* ----------------------------------------------------------------------- C1
\* C1 as stated: a second run on an unchanged catalog, without --clear-all,
\* after a run that completed, copies nothing and counts every item in
\* already_there.
C1_RerunAllAlreadyThere ==
    (pc = "done" /\ prev = "done" /\ ~args.CLEAR_ALL_PHOTOS)
        => /\ counts.copied = 0
           /\ counts.already_there = Len(pic_filenames)

\* C1 amended: when the catalog has at most num_limit rows (so no sample is
\* drawn), such a second run copies nothing; every item whose destination is
\* there is counted in already_there, and the others (their source file is
\* missing) are counted in error again.
C1_RerunCopiesNothing ==
    (pc = "done" /\ prev = "done" /\ ~args.CLEAR_ALL_PHOTOS /\ Len(catalog) <= NumLimit)
        => /\ counts.copied = 0
           /\ \A k \in Items :
                 /\ DestOf(k) \in DOMAIN destFiles => phase[k].copy = "ALREADY_PRESENT"
                 /\ DestOf(k) \notin DOMAIN destFiles
                       => phase[k].copy = "COPY_ERROR" /\ srcFiles[OrigOf(k)] = Missing
           /\ counts.already_there + counts.error = Len(pic_filenames)
           /\ (\A k \in Items : srcFiles[OrigOf(k)] # Missing)
                 => counts.already_there = Len(pic_filenames)

C1_Witness ==
    /\ pc = "done" /\ prev = "done" /\ ~args.CLEAR_ALL_PHOTOS
    /\ Len(catalog) <= NumLimit
    /\ counts.already_there = 1 /\ counts.error = 1 /\ counts.copied = 0

\* ----------------------------------------------------------------------- C2
\* C2: the copy of an item whose source file is missing and whose destination
\* is not there adds one to counts["error"], leaves already_there, copied and
\* resized as they were, prints the "couldn't copy" line, and the loop goes on
\* to the next item or, after the last one, to the return of counts.
C2_MissingSourceCountsError ==
    [][(/\ pc = "copy"
        /\ DestOf(i + 1) \notin DOMAIN destFiles
        /\ srcFiles[OrigOf(i + 1)] = Missing)
          => /\ counts'.error = counts.error + 1
             /\ counts'.already_there = counts.already_there
             /\ counts'.copied = counts.copied
             /\ counts'.resized = counts.resized
             /\ stdout' = Append(stdout, [kind |-> "couldnt_copy", orig |-> OrigOf(i + 1)])
             /\ i' = i + 1
             /\ pc' = IF i + 1 < Len(orig_dest_filenames) THEN "copy" ELSE "report"
             /\ destFiles' = destFiles]_vars

C2_Witness ==
    /\ pc = "done"
    /\ Len(phase) = 2
    /\ phase[1].copy = "COPY_ERROR"
    /\ phase[2].copy = "COPIED"
    /\ counts.error = 1 /\ counts.copied = 1
    /\ LastLine.kind = "report"

\* ----------------------------------------------------------------------- C3
RECURSIVE ParseDecimal(_)
ParseDecimal(digits) ==
    IF Len(digits) = 0 THEN 0
    ELSE 10 * ParseDecimal(SubSeq(digits, 1, Len(digits) - 1))
         + (CHOOSE d \in 0..9 : DigitChars[d + 1] = digits[Len(digits)])

\* The digits that follow "subdir" in the directory of item k's destination.
BucketDigits(k) == SubSeq(DestOf(k)[2], Len(Str_subdir) + 1, Len(DestOf(k)[2]))

\* C3: after get_dest_filenames, the destination of the item at position i
\* (0-based) is DEST_DIR/subdir<NN>/<name>, where NN is i // bucket_capacity
\* written with at least two digits; the directory exists; and the bucket
\* numbers never decrease along the list.
C3_BucketIsIndexDivCapacity ==
    pc = "copy" =>
        \A k \in 1..Len(orig_dest_filenames) :
            /\ Len(DestOf(k)) = 3
            /\ DestOf(k)[1] = DEST_DIR
            /\ SubSeq(DestOf(k)[2], 1, Len(Str_subdir)) = Str_subdir
            /\ Len(BucketDigits(k)) >= 2
            /\ \A c \in 1..Len(BucketDigits(k)) : BucketDigits(k)[c] \in DigitSet
            /\ ParseDecimal(BucketDigits(k)) = (k - 1) \div args.pics_per_subdir.val
            /\ <<DEST_DIR, DestOf(k)[2]>> \in destDirs
            /\ OrigOf(k) = pic_filenames[k]
            /\ k > 1 => ParseDecimal(BucketDigits(k - 1)) <= ParseDecimal(BucketDigits(k))

C3_Witness ==
    /\ pc = "copy"
    /\ args.pics_per_subdir.val = 1
    /\ Len(orig_dest_filenames) = 101
    /\ BucketDigits(101) = <<"1", "0", "0">>
    /\ BucketDigits(8) = <<"0", "7">>

\* ----------------------------------------------------------------------- C4
\* C4: with resizing enabled and an integer pixel budget, a resize step on a
\* readable image leaves an image of at most the budget (in particular of
\* exactly the budget) untouched and unrecorded; an image over the budget is,
\* unless the image library raises, replaced in place by one whose pixel
\* count is at most the budget, and the item is recorded as resized.
C4_ResizeOnlyOverLimit ==
    [][(/\ pc = "resize"
        /\ ~args.RESIZE_SKIP
        /\ args.PIX_LIMIT.type = "int"
        /\ DestOf(i + 1) \in DOMAIN destFiles
        /\ destFiles[DestOf(i + 1)].kind = "image")
          => LET before == destFiles[DestOf(i + 1)]
                 after == destFiles'[DestOf(i + 1)]
                 limit == args.PIX_LIMIT.val
                 resized == phase'[i + 1].resize = "RESIZED"
             IN /\ before.width * before.height <= limit
                    => /\ after = before
                       /\ ~resized
                       /\ counts'.resized = counts.resized
                       /\ pc' # "aborted" => phase'[i + 1].resize \in {"NOT_RESIZED", "RESIZE_ERROR"}
                /\ before.width * before.height > limit
                    => /\ resized <=> (pc' # "aborted" /\ phase'[i + 1].resize # "RESIZE_ERROR")
                       /\ resized => /\ after.kind = "image"
                                     /\ after.width * after.height <= limit
                                     /\ counts'.resized = Append(counts.resized, OrigOf(i + 1))
                       /\ ~resized => counts'.resized = counts.resized]_vars

\* The first image exactly at the budget and left alone, the second over the
\* budget (3x3, one pixel over, and 4x4 both shrink to 2x2) and resized.
C4_Witness ==
    /\ pc = "report"
    /\ args.PIX_LIMIT = IntArg(8)
    /\ phase[1].resize = "NOT_RESIZED"
    /\ destFiles[DestOf(1)] = Image(4, 2)
    /\ phase[2].resize = "RESIZED"
    /\ destFiles[DestOf(2)] = Image(2, 2)
    /\ counts.resized = <<OrigOf(2)>>

\* ----------------------------------------------------------------------- C5
\* C5: no failure met while an item is copied or resized ends the run: a run
\* is only ever ended by a failure of the setup.
C5_NoItemFailurePropagates ==
    pc = "aborted" => abort.phase \notin {"copy", "resize"}

\* ----------------------------------------------------------------------- C6
\* C6: the line printed at the end of a completed run reports the four
\* counts of the run (copied, resized, already there, error), each equal to
\* the field of counts it reports.
C6_ReportHasAllFourCounts ==
    pc = "done" =>
        /\ LastLine.kind = "report"
        /\ {"copied", "resized", "already_there", "error"} \subseteq DOMAIN LastLine
        /\ LastLine.copied = counts.copied
        /\ LastLine.resized = Len(counts.resized)
        /\ LastLine.already_there = counts.already_there
        /\ LastLine.error = counts.error

\* ----------------------------------------------------------------------- C7
\* C7 as stated: an item planned to the destination of an earlier item of the
\* run always ends its copy as already there.
C7_LaterDuplicateAlwaysSkipped ==
    InLoop =>
        \A j, k \in Items :
            (j < k /\ DestOf(j) = DestOf(k) /\ phase[k].copy # "PENDING")
                => phase[k].copy = "ALREADY_PRESENT"

\* C7 amended: an item planned to the destination of an earlier item of the
\* run whose copy ended COPIED or ALREADY_PRESENT is counted in already_there,
\* prints no error, and leaves every destination file as it is.  (After an
\* earlier item whose source was missing, the later one is copied as usual.)
C7_DuplicateOfExistingSkipped ==
    [][(/\ pc = "copy"
        /\ \E j \in 1..i : /\ DestOf(j) = DestOf(i + 1)
                           /\ phase[j].copy \in CopyDone)
          => /\ phase'[i + 1].copy = "ALREADY_PRESENT"
             /\ counts' = [counts EXCEPT !.already_there = @ + 1]
             /\ destFiles' = destFiles
             /\ stdout' = stdout
             /\ pc' = "resize"]_vars

C7_Witness ==
    /\ InLoop
    /\ Len(phase) = 2
    /\ OrigOf(1) # OrigOf(2)
    /\ DestOf(1) = DestOf(2)
    /\ phase[1].copy = "COPIED"
    /\ phase[2].copy = "ALREADY_PRESENT"
    /\ counts.error = 0

\* ----------------------------------------------------------------------- C8
\* C8: items are handled one after another in the order of the plan; an item
\* reaches its resize only after its copy ended COPIED or ALREADY_PRESENT, and
\* then always does (as SKIPPED, without opening the file, under
\* --resize-skip); after COPY_ERROR no resize is tried and the next item is
\* taken.
C8_ItemSequence ==
    InLoop =>
        \A k \in Items :
            /\ k - 1 < i =>
                  /\ phase[k].copy \in CopyDone \cup {"COPY_ERROR"}
                  /\ phase[k].copy = "COPY_ERROR" => phase[k].resize = "NONE"
                  /\ phase[k].copy \in CopyDone =>
                        phase[k].resize \in
                            (IF args.RESIZE_SKIP THEN {"SKIPPED"} ELSE ResizeTried)
            /\ k - 1 > i => phase[k] = Pending
            /\ (k - 1 = i /\ Stage = "copy") => phase[k] = Pending
            /\ (k - 1 = i /\ Stage = "resize") =>
                  /\ phase[k].copy \in CopyDone
                  /\ phase[k].resize = "NONE"
            /\ Stage \in {"report", "done"} => i = Len(phase)

C8_Witness ==
    /\ pc = "done"
    /\ Len(phase) = 2
    /\ phase[1] = [copy |-> "COPY_ERROR", resize |-> "NONE"]
    /\ phase[2] = [copy |-> "ALREADY_PRESENT", resize |-> "RESIZED"]

\* ----------------------------------------------------------------------- C9
\* C9: a resize step that ends in the "couldn't resize" line (an OSError of
\* the image library) changes nothing in counts: the item is not appended to
\* resized, error is not incremented, the count of its copy is kept; and the
\* loop goes on.
C9_ResizeErrorNotCounted ==
    [][(/\ pc = "resize"
        /\ Len(stdout') = Len(stdout) + 1
        /\ stdout'[Len(stdout')].kind = "couldnt_resize")
          => /\ counts' = counts
             /\ phase'[i + 1].copy = phase[i + 1].copy
             /\ phase'[i + 1].resize = "RESIZE_ERROR"
             /\ i' = i + 1
             /\ pc' = IF i + 1 < Len(orig_dest_filenames) THEN "copy" ELSE "report"]_vars

C9_Witness ==
    /\ pc = "done"
    /\ Len(phase) = 2
    /\ phase[1] = [copy |-> "COPIED", resize |-> "RESIZE_ERROR"]
    /\ phase[2].copy = "COPIED"
    /\ counts.error = 0 /\ counts.copied = 2
    /\ Len(counts.resized) <= 1

\* ---------------------------------------------------------------------- C10
\* C10: every item whose copy has ended is counted in exactly one of
\* already_there, copied, error (so the three add up to the number of items
\* handled, and to the number of input items at the end); resized lists, in
\* order and once each, exactly the items whose resize ended RESIZED, all of
\* them counted as copied or already there; it is empty under --resize-skip.
C10_Accounting ==
    InLoop =>
        /\ counts.already_there = CountOf("ALREADY_PRESENT")
        /\ counts.copied = CountOf("COPIED")
        /\ counts.error = CountOf("COPY_ERROR")
        /\ counts.already_there + counts.copied + counts.error
              = i + (IF Stage = "resize" THEN 1 ELSE 0)
        /\ Stage \in {"report", "done"} =>
              counts.already_there + counts.copied + counts.error = Len(pic_filenames)
        /\ Len(counts.resized) = Cardinality({k \in Items : phase[k].resize = "RESIZED"})
        /\ \E pos \in [1..Len(counts.resized) -> Items] :
              /\ \A a, b \in DOMAIN pos : a < b => pos[a] < pos[b]
              /\ \A a \in DOMAIN pos :
                    /\ counts.resized[a] = OrigOf(pos[a])
                    /\ phase[pos[a]].resize = "RESIZED"
                    /\ phase[pos[a]].copy \in CopyDone
        /\ Len(counts.resized) <= counts.already_there + counts.copied
        /\ args.RESIZE_SKIP => counts.resized = <<>>

C10_Witness ==
    /\ pc = "done"
    /\ counts.error = 1
    /\ counts.copied = 1
    /\ Len(counts.resized) = 1

====
